---- MODULE Spec2Model ----
(***************************************************************************)
(* Model of crates/editor_ui/src/meshless_visualizer.rs: the editor icon   *)
(* asset loading state, the two reconciliation systems visualize_meshless  *)
(* and visualize_custom_meshless, the cleanup system clean_meshless, and   *)
(* the deferred command queue through which all three change the world.    *)
(***************************************************************************)
EXTENDS Integers, Sequences, FiniteSets, TLC

VARIABLES editorState, loader, dynamic_assets, built, editor_icons,
          world, nextId, commands, ran, frame, lastFrame, panicked

vars == <<editorState, loader, dynamic_assets, built, editor_icons,
          world, nextId, commands, ran, frame, lastFrame, panicked>>

(***************************************************************************)
(* Bounds of the model.                                                    *)
(***************************************************************************)
\* number of subject entities in the initial scene
MaxSubjects == 2
\* number of frames (command applications) explored after loading
MaxFrames == 3

(***************************************************************************)
(* Program constants.                                                      *)
(***************************************************************************)
\* crate::LAST_RENDER_LAYER, the editor-only render layer
LAST_RENDER_LAYER == 31

NoEntity == 0

(***************************************************************************)
(* Asset handles.  A handle is described by where it was made and of what. *)
(***************************************************************************)
Handle(src, desc) == [src |-> src, desc |-> desc]

NoHandle == Handle("none", "none")

\* handles a designer put into a MeshlessModel
UserMesh == Handle("user", "mesh")
UserTexture == Handle("user", "texture")
UserMaterial == Handle("user", "material")

\* ass.add(shape::Quad::new(Vec2::splat(2.)).into())
DefaultQuad == Handle("asset_server.add", "Quad(2,2)")
\* ass.load("icons/unknown.png")
DefaultTexture == Handle("asset_server.load", "icons/unknown.png")
\* ass.add(StandardMaterial { unlit: true, ..default() })
DefaultMaterial == Handle("asset_server.add", "StandardMaterial{unlit}")
\* the arm of the light match that is marked unreachable!()
UnreachableImage == Handle("unreachable", "unreachable")

(***************************************************************************)
(* EditorIconAssets: the keys of the collection, in field order, and the   *)
(* manifest entries (EditorIconAssetType) they are resolved from.          *)
(***************************************************************************)
IconKeys == <<"unknown", "directional", "point", "spot", "camera", "square", "sphere">>

IconKeySet == {IconKeys[i] : i \in 1..Len(IconKeys)}

EditorIconAssetType(key) ==
    CASE key = "square" -> [type |-> "Quad", arg |-> "size"]
      [] key = "sphere" -> [type |-> "Sphere", arg |-> "1"]
      [] OTHER -> [type |-> "Image", arg |-> key]

\* the manifests a run may start from: the complete one, and ones that lack a key
Manifests ==
    {[k \in IconKeySet |-> EditorIconAssetType(k)]}
        \cup {[k \in IconKeySet \ {m} |-> EditorIconAssetType(k)] : m \in {"unknown", "sphere"}}

\* the radius of the sphere built when the radius of the manifest is bad
FallbackRadius == "0.75"

\* the radii for which the construction of the sphere mesh fails
DegenerateRadii == {"0", "-1"}

\* Mesh::try_from(shape::Icosphere { radius, ..default() }): a mesh, or an error
TryFromIcosphere(radius) ==
    IF radius \in DegenerateRadii
    THEN [ok |-> FALSE, mesh |-> NoHandle]
    ELSE [ok |-> TRUE, mesh |-> Handle("Icosphere", radius)]

\* the Result of DynamicAsset::build; a panic is neither Ok nor Err
BuildResult(result, handles) == [result |-> result, handles |-> handles]

\* the Sphere arm with the error of try_from handed on to the caller
BuildSphereNoFallback(radius) ==
    LET tried == TryFromIcosphere(radius)
    IN IF tried.ok THEN BuildResult("Ok", <<tried.mesh>>) ELSE BuildResult("Err", <<>>)

\* EditorIconAssetType::Sphere { radius }: meshes.add(try_from(radius)
\* .unwrap_or(Icosphere { radius: 0.75 }.try_into().unwrap())); the fallback is
\* built before unwrap_or looks at the first result
BuildSphere(radius) ==
    LET tried == TryFromIcosphere(radius)
        fallback == TryFromIcosphere(FallbackRadius)
    IN IF ~fallback.ok THEN BuildResult("Panic", <<>>)
       ELSE BuildResult("Ok", <<IF tried.ok THEN tried.mesh ELSE fallback.mesh>>)

\* DynamicAsset::build: Ok(DynamicAssetType::Single(handle)) in every arm
build(key, entry) ==
    CASE entry.type = "Image" -> BuildResult("Ok", <<Handle("manifest.image", key)>>)
      [] entry.type = "Quad" -> BuildResult("Ok", <<Handle("manifest.quad", key)>>)
      [] entry.type = "Sphere" -> BuildSphere(entry.arg)

\* DynamicAsset::build: the handle a manifest entry resolves to
BuildAsset(key, entry) == build(key, entry).handles[1]

NoResource == [k \in {} |-> NoHandle]

(***************************************************************************)
(* Entities and their components.                                          *)
(***************************************************************************)
\* Option<&Children>: None, or Some(list)
NoChildren == [some |-> FALSE, list |-> <<>>]

SomeChildren(list) == [some |-> TRUE, list |-> list]

\* MeshlessModel; an unset optional field is NoHandle
NoVisual == [variant |-> "None", mesh |-> NoHandle, texture |-> NoHandle, material |-> NoHandle]

Billboard(mesh, texture) ==
    [variant |-> "Billboard", mesh |-> mesh, texture |-> texture, material |-> NoHandle]

Object(mesh, material) ==
    [variant |-> "Object", mesh |-> mesh, texture |-> NoHandle, material |-> material]

\* impl Default for MeshlessModel
DefaultMeshlessModel == Billboard(NoHandle, NoHandle)

\* an entity of the scene: its marker components and the data of the others.
\* origin and subject record which system spawned the entity and for whom.
SceneEntity(comps, visual) ==
    [comps |-> comps, visual |-> visual,
     mesh |-> NoHandle, texture |-> NoHandle, material |-> NoHandle,
     layer |-> 0, visibility |-> "Inherited", select_parent |-> NoEntity,
     parent |-> NoEntity, children |-> NoChildren,
     origin |-> "scene", subject |-> NoEntity]

Prefab == {"PrefabMarker", "Transform", "Visibility"}

\* the kinds of entity a scene is made of
Archetypes ==
    << SceneEntity(Prefab \cup {"DirectionalLight"}, NoVisual),
       SceneEntity(Prefab \cup {"SpotLight"}, NoVisual),
       SceneEntity(Prefab \cup {"PointLight"}, NoVisual),
       SceneEntity(Prefab \cup {"Camera"}, NoVisual),
       SceneEntity(Prefab \cup {"Camera", "EditorCameraMarker"}, NoVisual),
       SceneEntity({"Transform", "Visibility", "PointLight"}, NoVisual),
       SceneEntity(Prefab \cup {"DirectionalLight", "SpotLight"}, NoVisual),
       SceneEntity(Prefab \cup {"SpotLight", "Camera"}, NoVisual),
       SceneEntity({"Transform", "Visibility", "CustomMeshless"}, DefaultMeshlessModel),
       SceneEntity({"Transform", "Visibility", "CustomMeshless"}, Billboard(NoHandle, UserTexture)),
       SceneEntity({"Transform", "Visibility", "CustomMeshless"}, Billboard(UserMesh, NoHandle)),
       SceneEntity({"Transform", "Visibility", "CustomMeshless"}, Object(NoHandle, NoHandle)),
       SceneEntity({"Transform", "Visibility", "CustomMeshless"}, Object(UserMesh, NoHandle)),
       SceneEntity({"Transform", "Visibility", "CustomMeshless"}, Object(NoHandle, UserMaterial)),
       SceneEntity(Prefab \cup {"PointLight", "CustomMeshless"}, DefaultMeshlessModel) >>

\* a designer-made billboard entity that is no proxy
UserBillboard ==
    [SceneEntity({"Transform", "Visibility", "BillboardMeshHandle", "BillboardTextureHandle"}, NoVisual)
        EXCEPT !.mesh = UserMesh, !.texture = UserTexture]

\* an entity with no component the systems look at
PlainEntity == SceneEntity({"Transform", "Visibility"}, NoVisual)

RECURSIVE SetToSeq(_)
SetToSeq(S) ==
    IF S = {} THEN <<>>
    ELSE LET m == CHOOSE x \in S : \A y \in S : x <= y
         IN <<m>> \o SetToSeq(S \ {m})

\* the scene made of the archetypes picked, the first subject laid out as asked:
\* "flat" (on its own), "child" (it has an unrelated child), "marked" (it has a
\* designer-made billboard as child), "nested" (it is the child of a
\* designer-made billboard)
BuildScene(picked, layout) ==
    LET idx == SetToSeq(picked)
        n == Len(idx)
        extra == n + 1
        base == [e \in 1..n |-> Archetypes[idx[e]]]
    IN CASE layout = "flat" -> base
         [] layout = "child" ->
              [e \in 1..extra |->
                 IF e = extra THEN [PlainEntity EXCEPT !.parent = 1]
                 ELSE IF e = 1 THEN [base[1] EXCEPT !.children = SomeChildren(<<extra>>)]
                 ELSE base[e]]
         [] layout = "marked" ->
              [e \in 1..extra |->
                 IF e = extra THEN [UserBillboard EXCEPT !.parent = 1]
                 ELSE IF e = 1 THEN [base[1] EXCEPT !.children = SomeChildren(<<extra>>)]
                 ELSE base[e]]
         [] layout = "nested" ->
              [e \in 1..extra |->
                 IF e = extra THEN [UserBillboard EXCEPT !.children = SomeChildren(<<1>>)]
                 ELSE IF e = 1 THEN [base[1] EXCEPT !.parent = extra]
                 ELSE base[e]]

\* one directional light, one camera and one custom entity with the default visual
ScenarioPicked == {1, 4, 9}

Scenes ==
    {BuildScene(picked, layout) :
        picked \in {s \in SUBSET (1..Len(Archetypes)) : Cardinality(s) \in 1..MaxSubjects}
                        \cup {ScenarioPicked},
        layout \in {"flat", "child", "marked", "nested"}}

Alive == DOMAIN world

Has(w, e, comp) == e \in DOMAIN w /\ comp \in w[e].comps

(***************************************************************************)
(* Initial state: the application is in EditorState::Loading, the manifest *)
(* file is not read yet, a scene is in the world, no command is queued.    *)
(***************************************************************************)
Init ==
    /\ editorState = "Loading"
    /\ loader \in [phase : {"file"}, manifest : Manifests]
    /\ dynamic_assets = {}
    /\ built = NoResource
    /\ editor_icons = NoResource
    /\ world \in Scenes
    /\ nextId = Cardinality(DOMAIN world) + 1
    /\ commands = <<>>
    /\ ran = {}
    /\ frame = 0
    /\ lastFrame = "none"
    /\ panicked = FALSE

(***************************************************************************)
(* The loading state (MeshlessVisualizerPlugin::build): read the manifest, *)
(* register its keys, resolve every key of EditorIconAssets, publish the   *)
(* resource and continue to EditorState::Editor.                           *)
(***************************************************************************)
\* DynamicAssetCollection::register: every entry of the file becomes a key
RegisterDynamicAssets ==
    /\ ~panicked
    /\ loader.phase = "file"
    /\ dynamic_assets' = DOMAIN loader.manifest
    /\ loader' = [loader EXCEPT !.phase = "registered"]
    /\ UNCHANGED <<editorState, built, editor_icons, world, nextId, commands, ran, frame, lastFrame, panicked>>

\* load_collection::<EditorIconAssets>: every #[asset(key = ...)] field is looked
\* up among the registered keys; a key that is not there is a panic
LoadCollection ==
    /\ ~panicked
    /\ loader.phase = "registered"
    /\ IF IconKeySet \subseteq dynamic_assets
       THEN /\ loader' = [loader EXCEPT !.phase = "building"]
            /\ UNCHANGED panicked
       ELSE /\ panicked' = TRUE
            /\ UNCHANGED loader
    /\ UNCHANGED <<editorState, dynamic_assets, built, editor_icons, world, nextId, commands, ran, frame, lastFrame>>

\* the next field of EditorIconAssets that has no handle yet
NextKey == IconKeys[Cardinality(DOMAIN built) + 1]

\* DynamicAsset::build for the next field, in field order; the collection
\* expects Ok, an Err ends the application
BuildKey ==
    /\ ~panicked
    /\ loader.phase = "building"
    /\ DOMAIN built # IconKeySet
    /\ IF build(NextKey, loader.manifest[NextKey]).result = "Ok"
       THEN /\ built' = built @@ (NextKey :> BuildAsset(NextKey, loader.manifest[NextKey]))
            /\ UNCHANGED panicked
       ELSE /\ panicked' = TRUE
            /\ UNCHANGED built
    /\ UNCHANGED <<editorState, loader, dynamic_assets, editor_icons, world, nextId, commands, ran, frame, lastFrame>>

\* the collection is complete: every field has its handle
CollectionLoadedEarly == loader.phase = "building"

CollectionLoaded == loader.phase = "building" /\ DOMAIN built = IconKeySet

\* continue_to_state(EditorState::Editor): the resource is inserted and the
\* state changes once the collection is complete
ContinueToState ==
    /\ ~panicked
    /\ CollectionLoaded
    /\ editor_icons' = built
    /\ editorState' = "Editor"
    /\ loader' = [loader EXCEPT !.phase = "done"]
    /\ UNCHANGED <<dynamic_assets, built, world, nextId, commands, ran, frame, lastFrame, panicked>>

\* EditorSet::Editor, the set the two reconciliation systems are put in, runs
\* in EditorState::Editor only
EditorSetEditor == editorState = "Editor"

\* the surrounding application invokes cleanup on demand, while the editor runs
CleanupInvoked == editorState = "Editor"

(***************************************************************************)
(* Deferred commands.                                                      *)
(***************************************************************************)
NoEnt == SceneEntity({}, NoVisual)

Spawn(id, ent) == [op |-> "spawn", a |-> id, b |-> NoEntity, ent |-> ent]

AddChild(parent, child) == [op |-> "add_child", a |-> parent, b |-> child, ent |-> NoEnt]

DespawnRecursive(e) == [op |-> "despawn_recursive", a |-> e, b |-> NoEntity, ent |-> NoEnt]

(***************************************************************************)
(* What the reconciliation systems spawn.                                  *)
(***************************************************************************)
\* BillboardTextureBundle { mesh, texture } with RenderLayers::layer(LAST_RENDER_LAYER)
BillboardProxy(mesh, texture, system, subject) ==
    [SceneEntity({"Transform", "Visibility", "BillboardMeshHandle", "BillboardTextureHandle",
                  "RenderLayers"}, NoVisual)
        EXCEPT !.mesh = mesh, !.texture = texture, !.layer = LAST_RENDER_LAYER,
               !.origin = system, !.subject = subject]

\* MaterialMeshBundle { mesh: sphere, visibility: Hidden } with SelectParent { parent }
ClickVolume(sphere, parent, system) ==
    [SceneEntity({"Transform", "Visibility", "Mesh", "StandardMaterial", "SelectParent"}, NoVisual)
        EXCEPT !.mesh = sphere, !.visibility = "Hidden", !.select_parent = parent,
               !.origin = system]

\* the same bundle without the RenderLayers component
ObjectProxyNoLayer(mesh, material, parent, entity) ==
    [SceneEntity({"Transform", "Visibility", "Mesh", "StandardMaterial", "SelectParent"}, NoVisual)
        EXCEPT !.mesh = mesh, !.material = material,
               !.select_parent = parent,
               !.origin = "visualize_custom_meshless", !.subject = entity]

\* MaterialMeshBundle { mesh, material } with SelectParent { parent: entity } and
\* RenderLayers::layer(LAST_RENDER_LAYER)
ObjectProxy(mesh, material, parent, entity) ==
    [SceneEntity({"Transform", "Visibility", "Mesh", "StandardMaterial", "SelectParent",
                  "RenderLayers"}, NoVisual)
        EXCEPT !.mesh = mesh, !.material = material, !.layer = LAST_RENDER_LAYER,
               !.select_parent = parent,
               !.origin = "visualize_custom_meshless", !.subject = entity]

\* SelectParent { parent }: the entity a click on the spawned volume selects
BackReferenceToProxy(proxy, subject) == proxy

BackReference(proxy, subject) == subject

\* commands.spawn(bundle).with_children(|adult| adult.spawn(volume)).id(), then
\* commands.entity(parent).add_child(child): the proxy takes id, its volume id + 1
SpawnBillboard(id, parent, mesh, texture, system) ==
    << Spawn(id, BillboardProxy(mesh, texture, system, parent)),
       Spawn(id + 1, ClickVolume(editor_icons["sphere"], BackReference(id, parent), system)),
       AddChild(id, id + 1),
       AddChild(parent, id) >>

\* visualized.get(*child).is_err(): the child carries no BillboardMeshHandle
NotVisualizedNever(e, i) == FALSE

NotVisualized(e, i) == ~Has(world, world[e].children.list[i], "BillboardMeshHandle")

\* the test left out: every subject is taken to miss its proxy
MissingProxyAlways(e) == TRUE

\* children.is_none() || children.is_some_and(|c| c.iter().all(|child| visualized.get(*child).is_err()))
MissingProxy(e) ==
    \/ ~world[e].children.some
    \/ /\ world[e].children.some
       /\ \A i \in 1..Len(world[e].children.list) : NotVisualized(e, i)

\* the lights query: AnyOf<(&DirectionalLight, &SpotLight, &PointLight)>,
\* With<PrefabMarker>, With<Transform>, With<Visibility>
LightKinds == {"DirectionalLight", "SpotLight", "PointLight"}

lights == {e \in Alive : Prefab \subseteq world[e].comps /\ world[e].comps \cap LightKinds # {}}

\* the cams query without its Without<EditorCameraMarker> filter
camsWithEditorCamera == {e \in Alive : Prefab \cup {"Camera"} \subseteq world[e].comps}

\* the cams query: With<Camera>, With<PrefabMarker>, With<Transform>,
\* With<Visibility>, Without<EditorCameraMarker>
cams ==
    {e \in Alive : /\ Prefab \cup {"Camera"} \subseteq world[e].comps
                   /\ "EditorCameraMarker" \notin world[e].comps}

\* the objects query of visualize_custom_meshless: every entity with CustomMeshless
customObjects == {e \in Alive : "CustomMeshless" \in world[e].comps}

\* the objects query of clean_meshless:
\* Or<(With<BillboardTextureHandle>, With<BillboardMeshHandle>)>
cleanObjects ==
    {e \in Alive : world[e].comps \cap {"BillboardTextureHandle", "BillboardMeshHandle"} # {}}

\* the same match with the spot and point arms exchanged
LightImageSwapped(e) ==
    IF "DirectionalLight" \in world[e].comps THEN editor_icons["directional"]
    ELSE IF "SpotLight" \in world[e].comps THEN editor_icons["point"]
    ELSE IF "PointLight" \in world[e].comps THEN editor_icons["spot"]
    ELSE UnreachableImage

\* match light_type { (Some(_), _, _) => directional, (_, Some(_), _) => spot,
\*                    (_, _, Some(_)) => point, _ => unreachable!() }
LightImage(e) ==
    IF "DirectionalLight" \in world[e].comps THEN editor_icons["directional"]
    ELSE IF "SpotLight" \in world[e].comps THEN editor_icons["spot"]
    ELSE IF "PointLight" \in world[e].comps THEN editor_icons["point"]
    ELSE UnreachableImage

\* Option::unwrap_or: the value when set, the default when unset
UnwrapOrAlwaysDefault(opt, default) == default

UnwrapOr(opt, default) == IF opt # NoHandle THEN opt ELSE default

\* match &meshless.visual { Billboard { mesh, texture } => ..., Object { mesh, material } => ... }
CustomProxy(id, entity) ==
    LET visual == world[entity].visual
    IN IF visual.variant = "Billboard"
       THEN SpawnBillboard(id, entity,
                           UnwrapOr(visual.mesh, DefaultQuad),
                           UnwrapOr(visual.texture, DefaultTexture),
                           "visualize_custom_meshless")
       ELSE << Spawn(id, ObjectProxy(UnwrapOr(visual.mesh, editor_icons["sphere"]),
                                     UnwrapOr(visual.material, DefaultMaterial),
                                     BackReference(id, entity), entity)),
               AddChild(entity, id) >>

\* entity ids reserved by a list of commands
Reserved(cmds) == Cardinality({i \in 1..Len(cmds) : cmds[i].op = "spawn"})

\* for (parent, children, light_type) in &lights { ... }
RECURSIVE ForLights(_, _)
ForLights(todo, id) ==
    IF todo = <<>> THEN <<>>
    ELSE LET parent == Head(todo)
             cmds == IF MissingProxy(parent)
                     THEN SpawnBillboard(id, parent, editor_icons["square"],
                                         LightImage(parent), "visualize_meshless")
                     ELSE <<>>
         IN cmds \o ForLights(Tail(todo), id + Reserved(cmds))

\* for (parent, children) in &cams { ... }
RECURSIVE ForCams(_, _)
ForCams(todo, id) ==
    IF todo = <<>> THEN <<>>
    ELSE LET parent == Head(todo)
             cmds == IF MissingProxy(parent)
                     THEN SpawnBillboard(id, parent, editor_icons["square"],
                                         editor_icons["camera"], "visualize_meshless")
                     ELSE <<>>
         IN cmds \o ForCams(Tail(todo), id + Reserved(cmds))

\* for (entity, meshless, children) in objects.iter() { ... }
RECURSIVE ForObjects(_, _)
ForObjects(todo, id) ==
    IF todo = <<>> THEN <<>>
    ELSE LET entity == Head(todo)
             cmds == IF MissingProxy(entity) THEN CustomProxy(id, entity) ELSE <<>>
         IN cmds \o ForObjects(Tail(todo), id + Reserved(cmds))

Reverse(s) == [i \in 1..Len(s) |-> s[Len(s) + 1 - i]]

(***************************************************************************)
(* The three systems.  Each reads the world as it is and queues commands;  *)
(* nothing changes in the world before the commands are applied.           *)
(***************************************************************************)
Reconcilers == {"visualize_meshless", "visualize_custom_meshless"}

visualize_meshless ==
    /\ ~panicked
    /\ EditorSetEditor
    /\ frame < MaxFrames
    /\ "visualize_meshless" \notin ran
    /\ LET forLights == ForLights(SetToSeq(lights), nextId)
           forCams == ForCams(SetToSeq(cams), nextId + Reserved(forLights))
       IN /\ commands' = commands \o forLights \o forCams
          /\ nextId' = nextId + Reserved(forLights) + Reserved(forCams)
    /\ ran' = ran \cup {"visualize_meshless"}
    /\ UNCHANGED <<editorState, loader, dynamic_assets, built, editor_icons, world, frame, lastFrame, panicked>>

visualize_custom_meshless ==
    /\ ~panicked
    /\ EditorSetEditor
    /\ frame < MaxFrames
    /\ "visualize_custom_meshless" \notin ran
    /\ LET forObjects == ForObjects(SetToSeq(customObjects), nextId)
       IN /\ commands' = commands \o forObjects
          /\ nextId' = nextId + Reserved(forObjects)
    /\ ran' = ran \cup {"visualize_custom_meshless"}
    /\ UNCHANGED <<editorState, loader, dynamic_assets, built, editor_icons, world, frame, lastFrame, panicked>>

\* for entity in objects.iter() { commands.entity(entity).despawn_recursive(); }
\* the order in which the query yields the entities is not fixed by the code
clean_meshless ==
    /\ ~panicked
    /\ CleanupInvoked
    /\ frame < MaxFrames
    /\ "clean_meshless" \notin ran
    /\ \E order \in {SetToSeq(cleanObjects), Reverse(SetToSeq(cleanObjects))} :
          commands' = commands \o [i \in 1..Len(order) |-> DespawnRecursive(order[i])]
    /\ ran' = ran \cup {"clean_meshless"}
    /\ UNCHANGED <<editorState, loader, dynamic_assets, built, editor_icons, world, nextId, frame, lastFrame, panicked>>

(***************************************************************************)
(* Applying the queued commands at the end of the frame.                   *)
(***************************************************************************)
Without(list, e) == SelectSeq(list, LAMBDA x : x # e)

\* the entity and everything below it, following Children
RECURSIVE Descendants(_, _)
Descendants(w, e) ==
    IF e \notin DOMAIN w THEN {}
    ELSE {e} \cup UNION {Descendants(w, w[e].children.list[i]) : i \in 1..Len(w[e].children.list)}

\* despawn of the entity alone, its children left behind
DespawnOnly(w, e) == IF e \in DOMAIN w THEN {e} ELSE {}

\* despawn_recursive: the entity goes with everything below it
DespawnedWith(w, e) == Descendants(w, e)

\* the parent forgets the entity, then the entity and its whole subtree go;
\* an entity that is gone already is left alone
ApplyDespawnRecursive(w, e) ==
    IF e \notin DOMAIN w THEN w
    ELSE LET p == w[e].parent
             gone == DespawnedWith(w, e)
             w1 == IF p \in DOMAIN w /\ w[p].children.some
                   THEN [w EXCEPT ![p].children.list = Without(@, e)]
                   ELSE w
         IN [x \in DOMAIN w \ gone |-> w1[x]]

\* the same, the new parent's Children replaced by the child alone
ApplyAddChildReplacing(w, parent, child) ==
    [w EXCEPT ![child].parent = parent, ![parent].children = SomeChildren(<<child>>)]

\* the child leaves its previous parent, if any, and is pushed to the end of
\* the new parent's Children
ApplyAddChild(w, parent, child) ==
    LET old == w[child].parent
        w1 == IF old \in DOMAIN w /\ w[old].children.some
              THEN [w EXCEPT ![old].children.list = Without(@, child)]
              ELSE w
    IN [w1 EXCEPT ![child].parent = parent,
                  ![parent].children = SomeChildren(Append(w1[parent].children.list, child))]

\* the world after the commands, in queue order; ok turns false when a command
\* addresses an entity that no longer exists (world.entity_mut panics) and the
\* rest of the queue is not applied
RECURSIVE ApplyAll(_, _)
ApplyAll(w, cmds) ==
    IF cmds = <<>> THEN [w |-> w, ok |-> TRUE]
    ELSE LET c == Head(cmds)
         IN CASE c.op = "spawn" -> ApplyAll(w @@ (c.a :> c.ent), Tail(cmds))
              [] c.op = "despawn_recursive" -> ApplyAll(ApplyDespawnRecursive(w, c.a), Tail(cmds))
              [] c.op = "add_child" ->
                   IF c.a \in DOMAIN w /\ c.b \in DOMAIN w
                   THEN ApplyAll(ApplyAddChild(w, c.a, c.b), Tail(cmds))
                   ELSE [w |-> w, ok |-> FALSE]

\* what ran in the frame that ends
FrameKind ==
    IF ran = Reconcilers THEN "reconcile"
    ELSE IF ran = {"clean_meshless"} THEN "clean"
    ELSE "mixed"

\* the frame ends: both reconciliation systems run in every Update of the
\* editor, cleanup may have run beside them or in a schedule of its own
ApplyDeferred ==
    /\ ~panicked
    /\ ran # {}
    /\ ran \cap Reconcilers # {} => Reconcilers \subseteq ran
    /\ LET after == ApplyAll(world, commands)
       IN /\ world' = after.w
          /\ panicked' = ~after.ok
    /\ commands' = <<>>
    /\ ran' = {}
    /\ frame' = frame + 1
    /\ lastFrame' = FrameKind
    /\ UNCHANGED <<editorState, loader, dynamic_assets, built, editor_icons, nextId>>

Next ==
    \/ RegisterDynamicAssets
    \/ LoadCollection
    \/ BuildKey
    \/ ContinueToState
    \/ visualize_meshless
    \/ visualize_custom_meshless
    \/ clean_meshless
    \/ ApplyDeferred

Spec == Init /\ [][Next]_vars

(***************************************************************************)
(* The loading state on its own, before a scene is in the world, over      *)
(* manifests with any sphere radius and any single key missing.            *)
(***************************************************************************)
Radii == {"1", "2", FallbackRadius} \cup DegenerateRadii

LoaderManifests ==
    LET full(r) == [k \in IconKeySet |->
                      IF k = "sphere" THEN [type |-> "Sphere", arg |-> r]
                      ELSE EditorIconAssetType(k)]
    IN {full(r) : r \in Radii}
          \cup {[k \in IconKeySet \ {m} |-> full(r)[k]] : r \in Radii, m \in IconKeySet}

LoaderInit ==
    /\ editorState = "Loading"
    /\ loader \in [phase : {"file"}, manifest : LoaderManifests]
    /\ dynamic_assets = {}
    /\ built = NoResource
    /\ editor_icons = NoResource
    /\ world = <<>>
    /\ nextId = 1
    /\ commands = <<>>
    /\ ran = {}
    /\ frame = 0
    /\ lastFrame = "none"
    /\ panicked = FALSE

LoaderNext ==
    \/ RegisterDynamicAssets
    \/ LoadCollection
    \/ BuildKey
    \/ ContinueToState

LoaderSpec == LoaderInit /\ [][LoaderNext]_vars

(***************************************************************************)
(* Vocabulary of the properties.                                           *)
(***************************************************************************)
\* the entities a reconciliation system iterates
Subjects == lights \cup cams \cup customObjects

\* a proxy: an entity a reconciliation system spawned as the child of a subject
IsProxy(e) == world[e].origin \in Reconcilers /\ "RenderLayers" \in world[e].comps

\* a clickable volume spawned under a billboard proxy
IsVolume(e) == world[e].origin \in Reconcilers /\ "RenderLayers" \notin world[e].comps

ChildSet(e) == {world[e].children.list[i] : i \in 1..Len(world[e].children.list)}

ProxyChildren(e) == {c \in ChildSet(e) \cap Alive : IsProxy(c)}

MarkerChildren(e) == {c \in ChildSet(e) : Has(world, c, "BillboardMeshHandle")}

AllProxies == {e \in Alive : IsProxy(e)}

\* the step that ends a frame
ApplyStep == ran # {} /\ ran' = {}

\* the step that ends a frame in which the two reconciliation systems ran alone
ReconcileStep == ApplyStep /\ ran = Reconcilers

(***************************************************************************)
(* C1.  Idempotence: once a reconciliation pass has run, a further pass on *)
(* the unchanged scene spawns no entity and leaves the child count under   *)
(* every subject as it was.                                                *)
(***************************************************************************)
C1_Idempotence ==
    [][(ReconcileStep /\ lastFrame = "reconcile")
          => /\ Alive' = Alive
             /\ \A s \in Subjects :
                   Len(world'[s].children.list) = Len(world[s].children.list)]_vars

(***************************************************************************)
(* C2.  At most one proxy: in every reachable state every entity has at    *)
(* most one direct child that is a proxy.                                  *)
(***************************************************************************)
C2_AtMostOneProxy ==
    ~panicked => \A s \in Alive : Cardinality(ProxyChildren(s)) <= 1

(***************************************************************************)
(* C3.  Coverage: a reconciliation pass gives every subject that has no    *)
(* proxy child (nor any marker-carrying child) exactly one proxy child, parented under it and bearing the  *)
(* selection of its kind; the scene of one directional light, one camera   *)
(* and one default custom entity has three proxies after a pass and three  *)
(* after the next.                                                         *)
(***************************************************************************)
\* the selection of the kind, read off the proxy p of the subject s
BearsSelection(p, s) ==
    IF "CustomMeshless" \in world[s].comps /\ world'[p].origin = "visualize_custom_meshless"
    THEN IF world[s].visual.variant = "Billboard"
         THEN "BillboardMeshHandle" \in world'[p].comps
         ELSE "Mesh" \in world'[p].comps
    ELSE /\ world'[p].mesh = editor_icons["square"]
         /\ world'[p].texture \in
               {editor_icons[k] : k \in {"directional", "spot", "point", "camera"}}
         /\ "DirectionalLight" \in world[s].comps /\ s \in lights
               => world'[p].texture = editor_icons["directional"]
         /\ s \notin lights => world'[p].texture = editor_icons["camera"]

IsScenario ==
    /\ Cardinality(Alive) = 3
    /\ \A e \in Alive : world[e].origin = "scene"
    /\ Cardinality(lights) = 1 /\ Cardinality(cams) = 1 /\ Cardinality(customObjects) = 1
    /\ \A e \in lights : world[e].comps = Prefab \cup {"DirectionalLight"}
    /\ \A e \in cams : world[e].comps = Prefab \cup {"Camera"}
    /\ \A e \in customObjects : world[e].visual = DefaultMeshlessModel /\ e \notin lights

C3_Coverage ==
    [][ReconcileStep
          => /\ \A s \in Subjects :
                  (ProxyChildren(s) = {} /\ MarkerChildren(s) = {})
                     => /\ Cardinality(ProxyChildren(s)') = 1
                        /\ \A p \in ProxyChildren(s)' :
                              world'[p].parent = s /\ BearsSelection(p, s)
             /\ IsScenario => Cardinality(AllProxies') = 3
             /\ (lastFrame = "reconcile" /\ Cardinality(Alive) = 9 /\ Cardinality(AllProxies) = 3)
                   => Cardinality(AllProxies') = 3]_vars

(***************************************************************************)
(* C4.  Cleanup completeness: when the commands of clean_meshless have     *)
(* been applied, every entity that carried a billboard texture or mesh     *)
(* marker is gone with all its descendants; after a frame in which cleanup *)
(* ran alone no entity carries such a marker.                              *)
(***************************************************************************)
C4_CleanupComplete ==
    [][(ApplyStep /\ "clean_meshless" \in ran /\ ~panicked')
          => /\ \A e \in cleanObjects : Descendants(world, e) \cap Alive' = {}
             /\ ran = {"clean_meshless"} => cleanObjects' = {}]_vars

\* cleanup ran alone, after proxies had been spawned below a designer-made
\* billboard, and took the billboard, the subject, its proxy and volume
C4_Witness ==
    /\ lastFrame = "clean"
    /\ ~panicked
    /\ Alive = {}
    /\ nextId > 4

(***************************************************************************)
(* C5.  Cleanup removes all spawned proxy entities: after a frame in which *)
(* cleanup ran alone, no entity spawned by a reconciliation system is left.*)
(***************************************************************************)
C5_CleanupRemovesAllSpawned ==
    (lastFrame = "clean" /\ ran = {} /\ ~panicked)
        => \A e \in Alive : world[e].origin = "scene"

(***************************************************************************)
(* C6.  Selection back-reference: every spawned entity that carries a      *)
(* SelectParent references the subject that was found missing a proxy, and *)
(* that subject is the parent of the proxy: of the Object proxy that       *)
(* carries the reference itself, or of the billboard proxy whose clickable *)
(* volume carries it.                                                      *)
(***************************************************************************)
C6_BackReference ==
    ~panicked =>
        \A e \in Alive :
            (world[e].origin \in Reconcilers /\ "SelectParent" \in world[e].comps)
                => LET proxy == IF IsProxy(e) THEN e ELSE world[e].parent
                   IN /\ proxy \in Alive
                      /\ IsProxy(proxy)
                      /\ world[e].select_parent = world[proxy].subject
                      /\ world[e].select_parent = world[proxy].parent
                      /\ world[e].select_parent \in Subjects

\* a clickable volume under a billboard proxy and an Object proxy are both alive
C6_Witness ==
    /\ ~panicked
    /\ \E e \in Alive : IsVolume(e) /\ "SelectParent" \in world[e].comps
    /\ \E e \in Alive : IsProxy(e) /\ "SelectParent" \in world[e].comps

(***************************************************************************)
(* C7.  Default substitution: the proxy of a CustomMeshless subject uses   *)
(* each optional field of the MeshlessModel as given when it is set and    *)
(* the documented default when it is unset, field by field: the 2x2 quad   *)
(* and the unknown image for Billboard, the sphere mesh and the unlit      *)
(* material for Object.                                                    *)
(***************************************************************************)
C7_DefaultSubstitution ==
    ~panicked =>
        \A p \in Alive :
            (IsProxy(p) /\ world[p].origin = "visualize_custom_meshless")
                => LET v == world[world[p].subject].visual
                   IN /\ v.variant = "Billboard"
                          => /\ "BillboardMeshHandle" \in world[p].comps
                             /\ v.mesh = NoHandle => world[p].mesh = DefaultQuad
                             /\ v.mesh # NoHandle => world[p].mesh = v.mesh
                             /\ v.texture = NoHandle => world[p].texture = DefaultTexture
                             /\ v.texture # NoHandle => world[p].texture = v.texture
                      /\ v.variant = "Object"
                          => /\ "BillboardMeshHandle" \notin world[p].comps
                             /\ v.mesh = NoHandle => world[p].mesh = editor_icons["sphere"]
                             /\ v.mesh # NoHandle => world[p].mesh = v.mesh
                             /\ v.material = NoHandle => world[p].material = DefaultMaterial
                             /\ v.material # NoHandle => world[p].material = v.material
                      /\ v = Billboard(NoHandle, NoHandle)
                          => world[p].mesh = Handle("asset_server.add", "Quad(2,2)")
                             /\ world[p].texture = Handle("asset_server.load", "icons/unknown.png")
                      /\ v = Billboard(NoHandle, UserTexture)
                          => world[p].mesh = Handle("asset_server.add", "Quad(2,2)")
                             /\ world[p].texture = UserTexture

\* proxies exist for a Billboard with only the texture set, and for an Object
\* with only the mesh set
C7_Witness ==
    /\ ~panicked
    /\ \E p \in Alive :
          /\ IsProxy(p)
          /\ world[p].subject \in Alive
          /\ world[world[p].subject].visual = Billboard(NoHandle, UserTexture)
    /\ \E p \in Alive :
          /\ IsProxy(p)
          /\ world[p].subject \in Alive
          /\ world[world[p].subject].visual = Object(UserMesh, NoHandle)

(***************************************************************************)
(* C8.  Load before reconcile: a reconciliation system runs only after     *)
(* every key of EditorIconAssets has been resolved and the resource has    *)
(* been published; the application is in the Editor state only after that; *)
(* with a key missing from the manifest no reconciliation system ever runs.*)
(***************************************************************************)
ReconcilerHasRun == ran \cap Reconcilers # {} \/ lastFrame \in {"reconcile", "mixed"}

C8_LoadBeforeReconcile ==
    /\ ReconcilerHasRun => editorState = "Editor"
    /\ editorState = "Editor"
          => /\ DOMAIN editor_icons = IconKeySet
             /\ \A k \in IconKeySet : editor_icons[k] = BuildAsset(k, loader.manifest[k])
    /\ editorState = "Loading" => editor_icons = NoResource
    /\ DOMAIN loader.manifest # IconKeySet
          => ~ReconcilerHasRun /\ editorState = "Loading" /\ AllProxies = {}

\* a reconciliation pass has run and has spawned proxies
C8_Witness ==
    /\ lastFrame = "reconcile"
    /\ AllProxies # {}
    /\ DOMAIN editor_icons = IconKeySet

(***************************************************************************)
(* C9.  Light icon selection.                                              *)
(***************************************************************************)
\* the proxies the light loop of visualize_meshless spawned
LightProxies ==
    {p \in Alive : /\ IsProxy(p)
                   /\ world[p].origin = "visualize_meshless"
                   /\ world[p].texture # editor_icons["camera"]}

\* C9: the icon of a light proxy is chosen by the light kind of its subject as
\* the match chooses it (directional -> directional image, else spot -> spot
\* image, else point -> point image); every subject of the light loop carries
\* one of the three kinds, so the unreachable arm is never taken.
C9_LightIcon ==
    ~panicked =>
        \A p \in LightProxies :
            LET kinds == world[world[p].subject].comps
            IN /\ world[p].texture # UnreachableImage
               /\ kinds \cap LightKinds # {}
               /\ "DirectionalLight" \in kinds => world[p].texture = editor_icons["directional"]
               /\ ("SpotLight" \in kinds /\ "DirectionalLight" \notin kinds)
                     => world[p].texture = editor_icons["spot"]
               /\ ("PointLight" \in kinds /\ {"DirectionalLight", "SpotLight"} \cap kinds = {})
                     => world[p].texture = editor_icons["point"]

\* proxies exist for a spot light, for a point light and for a light that is
\* both directional and spot
C9_Witness ==
    /\ ~panicked
    /\ \E p \in LightProxies : world[p].texture = editor_icons["spot"]
    /\ \E p \in LightProxies :
          {"DirectionalLight", "SpotLight"} \subseteq world[world[p].subject].comps

(***************************************************************************)
(* C10.  Unrelated children do not suppress the proxy: in a reconciliation *)
(* pass a subject none of whose children carries the billboard mesh marker *)
(* (also a subject with no children) receives a proxy and keeps the        *)
(* children it had; a subject with a marker-carrying child receives        *)
(* nothing.                                                                *)
(***************************************************************************)
C10_UnrelatedChildren ==
    [][ReconcileStep
          => \A s \in Subjects :
                LET old == world[s].children.list
                    new == world'[s].children.list
                IN IF MarkerChildren(s) = {}
                   THEN /\ Len(new) > Len(old)
                        /\ SubSeq(new, 1, Len(old)) = old
                        /\ \A i \in 1..Len(old) : old[i] \in Alive' /\ world'[old[i]] = world[old[i]]
                        /\ \A i \in (Len(old) + 1)..Len(new) :
                              /\ new[i] \notin Alive
                              /\ world'[new[i]].parent = s
                              /\ world'[new[i]].origin \in Reconcilers
                   ELSE world'[s] = world[s]]_vars

\* a subject has kept its unrelated child and has a proxy next to it
C10_Witness ==
    /\ ~panicked
    /\ \E s \in Subjects :
          /\ Len(world[s].children.list) >= 2
          /\ world[s].children.list[1] \in Alive
          /\ world[world[s].children.list[1]].origin = "scene"
          /\ "BillboardMeshHandle" \notin world[world[s].children.list[1]].comps
          /\ world[s].children.list[2] \in ProxyChildren(s)

(***************************************************************************)
(* C11.  Frame effect of reconciliation: a reconciliation pass despawns,   *)
(* re-parents and modifies no existing entity; it only spawns proxies      *)
(* (with their clickable volume) and appends each new proxy to the         *)
(* children of the subject that was missing one.  A spawned entity keeps   *)
(* its parent, renderable, render layer and back-reference in every later  *)
(* step for as long as it exists.                                          *)
(***************************************************************************)
\* the entity is as it was, but for children appended at the end of its list
OnlyChildrenAppended(e) ==
    /\ e \in Alive'
    /\ world'[e] = [world[e] EXCEPT !.children = world'[e].children]
    /\ Len(world'[e].children.list) >= Len(world[e].children.list)
    /\ SubSeq(world'[e].children.list, 1, Len(world[e].children.list)) = world[e].children.list
    /\ world'[e].children.some = FALSE => world'[e].children = world[e].children

\* the entity is new and is a proxy under a subject that was missing one, or
\* the clickable volume of a new billboard proxy
SpawnedForMissing(e) ==
    /\ world'[e].origin \in Reconcilers
    /\ LET p == world'[e].parent
       IN \/ /\ p \in Subjects
             /\ MarkerChildren(p) = {}
             /\ world'[e].subject = p
             /\ world'[p].children.list[Len(world'[p].children.list)] \in Alive' \ Alive
             /\ \E i \in (Len(world[p].children.list) + 1)..Len(world'[p].children.list) :
                   world'[p].children.list[i] = e
          \/ /\ p \in Alive' \ Alive
             /\ "BillboardMeshHandle" \in world'[p].comps
             /\ world'[p].children.list = <<e>>
             /\ "SelectParent" \in world'[e].comps

C11_FrameEffect ==
    [][/\ ReconcileStep
          => /\ \A e \in Alive : OnlyChildrenAppended(e)
             /\ \A e \in Alive :
                   world'[e].children # world[e].children
                       => e \in Subjects /\ MarkerChildren(e) = {}
             /\ \A e \in Alive' \ Alive : SpawnedForMissing(e)
       /\ \A e \in Alive \cap Alive' :
             world[e].origin \in Reconcilers => world'[e] = world[e]]_vars

\* three passes have run on a subject that kept its unrelated child: its first
\* proxy is still the child next to it
C11_Witness ==
    /\ ~panicked
    /\ frame = MaxFrames
    /\ lastFrame = "reconcile"
    /\ \E s \in Subjects :
          /\ Len(world[s].children.list) >= 2
          /\ world[s].children.list[1] \in Alive
          /\ world[world[s].children.list[1]].origin = "scene"
          /\ world[s].children.list[2] \in ProxyChildren(s)
          /\ world[s].children.list[2] < nextId - 2

(***************************************************************************)
(* C12.  Sphere fallback: building a Sphere { radius } entry never returns *)
(* an error and never ends the application; the handle it yields is a      *)
(* sphere mesh of the given radius, or of radius 0.75 when the sphere of   *)
(* the given radius cannot be constructed.                                 *)
(***************************************************************************)
C12_SphereFallback ==
    /\ panicked => loader.phase = "registered" /\ DOMAIN loader.manifest # IconKeySet
    /\ (loader.phase = "building" /\ Cardinality(DOMAIN built) = Len(IconKeys) - 1)
          => LET res == build("sphere", loader.manifest["sphere"])
             IN res.result = "Ok" /\ Len(res.handles) = 1
    /\ "sphere" \in DOMAIN built
          => LET radius == loader.manifest["sphere"].arg
             IN /\ built["sphere"].src = "Icosphere"
                /\ radius \in {"0", "-1"} => built["sphere"] = Handle("Icosphere", "0.75")
                /\ radius \notin {"0", "-1"} => built["sphere"] = Handle("Icosphere", radius)

\* the collection was completed from a manifest whose sphere has radius 0
C12_Witness ==
    /\ loader.phase = "done"
    /\ loader.manifest["sphere"].arg = "0"
    /\ editor_icons["sphere"] = Handle("Icosphere", "0.75")

(***************************************************************************)
(* C13.  Editor-only visibility: in every reachable state every entity a   *)
(* reconciliation system spawned for a subject, billboard or mesh, carries *)
(* RenderLayers::layer(LAST_RENDER_LAYER), and every clickable volume      *)
(* spawned under a billboard proxy is hidden.                              *)
(***************************************************************************)
\* spawned for a subject, as the ghost field subject records it
SpawnedProxies == {e \in Alive : world[e].origin \in Reconcilers /\ world[e].subject # NoEntity}

\* spawned inside with_children
SpawnedVolumes == {e \in Alive : world[e].origin \in Reconcilers /\ world[e].subject = NoEntity}

C13_EditorOnly ==
    /\ \A p \in SpawnedProxies :
          /\ "RenderLayers" \in world[p].comps
          /\ world[p].layer = LAST_RENDER_LAYER
          /\ world[p].layer # 0
          /\ "BillboardMeshHandle" \in world[p].comps \/ "Mesh" \in world[p].comps
    /\ \A v \in SpawnedVolumes :
          /\ world[v].visibility = "Hidden"
          /\ world[v].parent \in Alive => "BillboardMeshHandle" \in world[world[v].parent].comps

\* a billboard proxy with its volume and a mesh proxy exist together
C13_Witness ==
    /\ \E p \in SpawnedProxies : "BillboardMeshHandle" \in world[p].comps
    /\ \E p \in SpawnedProxies : "BillboardMeshHandle" \notin world[p].comps
    /\ \E v \in SpawnedVolumes : world[v].parent \in SpawnedProxies

(***************************************************************************)
(* C14.  Only eligible entities ever receive a proxy: whenever an entity   *)
(* gets a new child, the child spawned by visualize_meshless, the entity   *)
(* carries PrefabMarker, Transform and Visibility and is a light or a      *)
(* camera without EditorCameraMarker; the child spawned by                 *)
(* visualize_custom_meshless, the entity carries CustomMeshless.  No       *)
(* spawned entity is ever a subject, so no proxy is the proxy of a proxy.  *)
(***************************************************************************)
\* the children the entity has after the step that did not exist before it
NewChildren(s) ==
    {world'[s].children.list[i] : i \in 1..Len(world'[s].children.list)} \ Alive

C14_OnlyEligible ==
    [][/\ \A s \in Alive \cap Alive' :
             \A c \in NewChildren(s) \cap Alive' :
                 /\ world[s].origin = "scene"
                 /\ world'[c].origin = "visualize_meshless"
                       => /\ {"PrefabMarker", "Transform", "Visibility"} \subseteq world[s].comps
                          /\ \/ world[s].comps \cap {"DirectionalLight", "SpotLight", "PointLight"} # {}
                             \/ /\ "Camera" \in world[s].comps
                                /\ "EditorCameraMarker" \notin world[s].comps
                 /\ world'[c].origin = "visualize_custom_meshless"
                       => "CustomMeshless" \in world[s].comps
       /\ \A e \in Alive' :
             world'[e].origin \in Reconcilers
                 => /\ e \notin Subjects'
                    /\ world'[e].subject \in Alive'
                          => world'[world'[e].subject].origin = "scene"]_vars

\* after three passes the editor camera and the light without PrefabMarker
\* have no child, while a subject beside them has its proxy
C14_Witness ==
    /\ ~panicked
    /\ frame = MaxFrames
    /\ lastFrame = "reconcile"
    /\ AllProxies # {}
    /\ \E e \in Alive :
          /\ \/ "EditorCameraMarker" \in world[e].comps
             \/ world[e].comps = {"Transform", "Visibility", "PointLight"}
          /\ world[e].children = NoChildren

(***************************************************************************)
(* C15.  Recovery after cleanup: the reconciliation pass that follows a    *)
(* frame in which cleanup ran leaves every subject with a proxy child.     *)
(* When cleanup and the reconciliation systems run in the same frame, a    *)
(* subject whose proxies cleanup removes ends that frame without a proxy   *)
(* (the systems saw the proxy in the snapshot and spawned nothing), and    *)
(* has one again after the pass of the following frame.                    *)
(***************************************************************************)
\* the step that ends a frame in which cleanup ran beside the two systems
SameFrameStep == ApplyStep /\ ran = Reconcilers \cup {"clean_meshless"}

C15_Recovery ==
    [][/\ (ReconcileStep /\ lastFrame \in {"clean", "mixed"})
             => \A s \in Subjects' :
                   /\ ProxyChildren(s)' # {}
                   /\ \A p \in ProxyChildren(s)' : world'[p].parent = s
       /\ (SameFrameStep /\ ~panicked')
             => \A s \in Subjects \cap Alive' :
                   (ProxyChildren(s) # {} /\ ProxyChildren(s) \cap Alive' = {})
                       => /\ ProxyChildren(s)' = {}
                          /\ MarkerChildren(s)' = {}]_vars

\* a subject whose scene is intact has a billboard proxy again, the proxy and
\* the volume spawned before it having been removed
C15_Witness ==
    /\ ~panicked
    /\ frame = MaxFrames
    /\ lastFrame = "reconcile"
    /\ \E s \in Subjects :
          \E p \in ProxyChildren(s) :
              /\ "BillboardMeshHandle" \in world[p].comps
              /\ world[s].children.list = <<p>>
              /\ p > 2
              /\ p - 1 \notin Alive
              /\ p - 2 \notin Alive
              /\ \A e \in 1..(p - 3) : e \in Alive /\ world[e].origin = "scene"

====
